---- MODULE Spec2Model ----
(***************************************************************************)
(* Model of src/cleaning/data_cleaning.py: get_spark() and main(), the     *)
(* one-shot pipeline that reads fct_claim, cleans it in a pandas frame and *)
(* overwrites cleaned_claims and fct_claim_features_after_datacleanup.     *)
(*                                                                         *)
(* A cell is a tagged record [k, v]:                                       *)
(*   k = "null"  None / NaN / NaT (what pandas isnull() reports)           *)
(*   k = "str"   a string; in a date column v >= 0 is the text of day v    *)
(*               and v < 0 is text that is no date ("not-a-date")          *)
(*   k = "ts"    a pandas Timestamp, v the day number                      *)
(*   k = "num"   a number                                                  *)
(* A remote table is [cols, rows] with rows a sequence of functions        *)
(* cols -> cell; a pandas frame also carries each row's index label idx.   *)
(***************************************************************************)
EXTENDS Integers, Sequences, FiniteSets, TLC

VARIABLES env, pc, spark, tables, spark_df, df, spark_clean,
          before_dup, Q1, Q3, lower, upper, err

vars == <<env, pc, spark, tables, spark_df, df, spark_clean,
          before_dup, Q1, Q3, lower, upper, err>>

-----------------------------------------------------------------------------
(* Bounds of the model *)

MaxRunRows == 1
MaxColRows == 6
MaxDateRows == 3
MaxAmtRows == 5

-----------------------------------------------------------------------------
(* Cells *)

NULL == [k |-> "null", v |-> 0]
Str(n) == [k |-> "str", v |-> n]
Ts(d) == [k |-> "ts", v |-> d]
Num(n) == [k |-> "num", v |-> n]

\* pandas isnull(): None, NaN and NaT are missing; every string is a value
isnull(x) == x.k = "null"

\* the literal "unknown" of line 86, as a string code
UNKNOWN == 0
\* text that pd.to_datetime cannot parse
NotADate == 0 - 1

\* days added and subtracted by the two date imputations
DAYS == 2
\* percentage of missing values above which a column is dropped
MISSING_PCT == 40

EnvVars == {"DATABRICKS_HOST", "DATABRICKS_TOKEN",
            "DATABRICKS_CLUSTER_ID", "DATABRICKS_HTTP_PATH"}
\* os.getenv(): None when unset, else the string (possibly empty)
None == "<None>"
EnvValues == {None, "", "value"}

DateCols == {"pd_dt", "clm_adjud_ts", "clm_sys_cret_dt"}

NoFrame == [cols |-> {}, rows |-> <<>>]

-----------------------------------------------------------------------------
(* Sequence helpers *)

\* the k-th smallest element of a finite set of integers (k from 1)
NthOf(S, k) == CHOOSE i \in S : Cardinality({j \in S : j < i}) = k - 1

\* rows[i] for the positions i of Keep, in order (boolean-mask selection)
Take(rows, Keep) ==
    [k \in 1..Cardinality(Keep) |-> rows[NthOf(Keep, k)]]

-----------------------------------------------------------------------------
(* get_spark, lines 17-23 *)

truthy(s) == s # None /\ s # ""

\* mutant: tests "is not None" instead of truthiness
all_set_mut(e) == \A n \in EnvVars : e[n] # None

\* all([host, token, cluster_id, http_path])
all_set(e) == \A n \in EnvVars : truthy(e[n])

-----------------------------------------------------------------------------
(* Conversions between the remote table and the pandas frame *)

\* spark_df.toPandas(): same cells, rows labelled 0..n-1
toPandas(t) ==
    [cols |-> t.cols,
     rows |-> [i \in 1..Len(t.rows) |-> [idx |-> i - 1, c |-> t.rows[i]]]]

\* spark.createDataFrame(df): the index labels are not part of the table
createDataFrame(f) ==
    [cols |-> f.cols,
     rows |-> [i \in 1..Len(f.rows) |-> f.rows[i].c]]

-----------------------------------------------------------------------------
(* Cleaning rules, lines 61-101 *)

RowAllNull(r, cols) == \A c \in cols : isnull(r.c[c])

\* df.dropna(how="all", inplace=True)
dropna_all(f) ==
    [f EXCEPT !.rows = SelectSeq(@, LAMBDA r : ~RowAllNull(r, f.cols))]

NullCount(f, c) == Cardinality({i \in 1..Len(f.rows) : isnull(f.rows[i].c[c])})

\* mutant: >= 40 instead of > 40
cols_to_drop_mut(f) ==
    {c \in f.cols : Len(f.rows) > 0 /\
                    100 * NullCount(f, c) >= MISSING_PCT * Len(f.rows)}

\* missing_pct = df.isnull().mean() * 100; missing_pct[missing_pct > 40]
\* (the mean of no rows is NaN, and NaN > 40 is False)
cols_to_drop(f) ==
    {c \in f.cols : Len(f.rows) > 0 /\
                    100 * NullCount(f, c) > MISSING_PCT * Len(f.rows)}

\* df.drop(columns=cs, errors="ignore")
drop_columns(f, cs) ==
    [cols |-> f.cols \ cs,
     rows |-> [i \in 1..Len(f.rows) |->
                 [idx |-> f.rows[i].idx,
                  c |-> [x \in f.cols \ cs |-> f.rows[i].c[x]]]]]

\* mutant: the identifier column is left in place
drop_authzn_id_mut(f) == f

\* df.drop(columns=["authzn_id"], errors="ignore", inplace=True)
drop_authzn_id(f) == drop_columns(f, {"authzn_id"})

\* pd.to_datetime(x, errors="coerce") on one cell
to_datetime(x) ==
    CASE x.k = "ts" -> x
      [] x.k = "str" /\ x.v >= 0 -> Ts(x.v)
      [] OTHER -> NULL

\* apply g to the cells of column col
MapCol(f, col, g(_)) ==
    [f EXCEPT !.rows =
        [i \in 1..Len(f.rows) |->
            [f.rows[i] EXCEPT !.c = [x \in f.cols |->
                IF x = col THEN g(f.rows[i]) ELSE f.rows[i].c[x]]]]]

ParseCol(f, col) ==
    IF col \in f.cols THEN MapCol(f, col, LAMBDA r : to_datetime(r.c[col])) ELSE f

\* for col in ["pd_dt", "clm_adjud_ts", "clm_sys_cret_dt"]: ...
parse_dates(f) ==
    ParseCol(ParseCol(ParseCol(f, "pd_dt"), "clm_adjud_ts"), "clm_sys_cret_dt")

\* Timestamp + Timedelta(days=n); NaT stays NaT
plus_days(x, n) == IF x.k = "ts" THEN Ts(x.v + n) ELSE NULL

\* s.fillna(other) on one cell
fillna(x, other) == IF isnull(x) THEN other ELSE x

\* mutant: the creation date itself, without the two days
impute_pd_dt_mut(f) ==
    IF "clm_sys_cret_dt" \in f.cols /\ "pd_dt" \in f.cols
    THEN MapCol(f, "pd_dt",
                LAMBDA r : fillna(r.c["pd_dt"], r.c["clm_sys_cret_dt"]))
    ELSE f

\* df["pd_dt"] = df["pd_dt"].fillna(df["clm_sys_cret_dt"] + Timedelta(days=2))
impute_pd_dt(f) ==
    IF "clm_sys_cret_dt" \in f.cols /\ "pd_dt" \in f.cols
    THEN MapCol(f, "pd_dt",
                LAMBDA r : fillna(r.c["pd_dt"],
                                  plus_days(r.c["clm_sys_cret_dt"], DAYS)))
    ELSE f

\* mutant: adds the two days instead of subtracting them
impute_clm_adjud_ts_mut(f) ==
    IF "pd_dt" \in f.cols /\ "clm_adjud_ts" \in f.cols
    THEN MapCol(f, "clm_adjud_ts",
                LAMBDA r : fillna(r.c["clm_adjud_ts"],
                                  plus_days(r.c["pd_dt"], DAYS)))
    ELSE f

\* df["clm_adjud_ts"] = df["clm_adjud_ts"].fillna(df["pd_dt"] - Timedelta(days=2))
impute_clm_adjud_ts(f) ==
    IF "pd_dt" \in f.cols /\ "clm_adjud_ts" \in f.cols
    THEN MapCol(f, "clm_adjud_ts",
                LAMBDA r : fillna(r.c["clm_adjud_ts"],
                                  plus_days(r.c["pd_dt"], 0 - DAYS)))
    ELSE f

\* df["procsr_apprv_pay_by_nm"].fillna("unknown")
fill_categorical(f) ==
    IF "procsr_apprv_pay_by_nm" \in f.cols
    THEN MapCol(f, "procsr_apprv_pay_by_nm",
                LAMBDA r : fillna(r.c["procsr_apprv_pay_by_nm"], Str(UNKNOWN)))
    ELSE f

\* the non-missing numbers of column col, in row order
NumVals(f, col) ==
    LET Keep == {i \in 1..Len(f.rows) : f.rows[i].c[col].k = "num"}
    IN  [k \in 1..Cardinality(Keep) |-> f.rows[NthOf(Keep, k)].c[col].v]

\* the element at 0-based position j of vals sorted ascending
Sorted(vals, j) ==
    CHOOSE v \in {vals[i] : i \in 1..Len(vals)} :
        /\ Cardinality({i \in 1..Len(vals) : vals[i] < v}) <= j
        /\ j < Cardinality({i \in 1..Len(vals) : vals[i] <= v})

\* Series.quantile(q4/4), linear interpolation over the non-missing values,
\* as four times the quantile so that it stays an integer; NaN for no values
quantile(vals, q4) ==
    IF Len(vals) = 0 THEN NULL
    ELSE LET pos4 == (Len(vals) - 1) * q4
             lo == pos4 \div 4
             fr == pos4 % 4
             hi == IF fr = 0 THEN lo ELSE lo + 1
         IN  Num(4 * Sorted(vals, lo)
                 + fr * (Sorted(vals, hi) - Sorted(vals, lo)))

\* lower, upper = Q1 - 1.5 * IQR, Q3 + 1.5 * IQR, as eight times the value
\* (q1, q3 are four times Q1, Q3); NaN when the quantiles are NaN
lower_bound(q1, q3) ==
    IF q1.k = "num" /\ q3.k = "num" THEN Num(2 * q1.v - 3 * (q3.v - q1.v)) ELSE NULL

upper_bound(q1, q3) ==
    IF q1.k = "num" /\ q3.k = "num" THEN Num(2 * q3.v + 3 * (q3.v - q1.v)) ELSE NULL

\* x >= lo and x <= hi on one cell; a comparison with NaN is False
in_range(x, lo, hi) ==
    /\ x.k = "num" /\ lo.k = "num" /\ hi.k = "num"
    /\ 8 * x.v >= lo.v
    /\ 8 * x.v <= hi.v

\* mutant: strict comparisons
remove_outliers_mut(f, lo, hi) ==
    LET Keep == {i \in 1..Len(f.rows) :
                    LET x == f.rows[i].c["totl_billd_amt"]
                    IN  /\ x.k = "num" /\ lo.k = "num" /\ hi.k = "num"
                        /\ 8 * x.v > lo.v
                        /\ 8 * x.v < hi.v}
    IN  [f EXCEPT !.rows = Take(f.rows, Keep)]

\* df[(df["totl_billd_amt"] >= lower) & (df["totl_billd_amt"] <= upper)]
remove_outliers(f, lo, hi) ==
    LET Keep == {i \in 1..Len(f.rows) :
                    in_range(f.rows[i].c["totl_billd_amt"], lo, hi)}
    IN  [f EXCEPT !.rows = Take(f.rows, Keep)]

\* DataFrame.empty: no rows or no columns
empty(f) == f.cols = {} \/ Len(f.rows) = 0

\* mutant: keep="last"
drop_duplicates_mut(f) ==
    LET Keep == {i \in 1..Len(f.rows) :
                    \A j \in (i + 1)..Len(f.rows) : f.rows[j].c # f.rows[i].c}
    IN  IF empty(f) THEN f ELSE [f EXCEPT !.rows = Take(f.rows, Keep)]

\* df.drop_duplicates(inplace=True): all columns compared (missing values
\* equal to each other, index labels ignored), the first occurrence kept;
\* pandas leaves an empty frame (no rows or no columns) as it is
drop_duplicates(f) ==
    LET Keep == {i \in 1..Len(f.rows) :
                    \A j \in 1..(i - 1) : f.rows[j].c # f.rows[i].c}
    IN  IF empty(f) THEN f ELSE [f EXCEPT !.rows = Take(f.rows, Keep)]

-----------------------------------------------------------------------------
(* main, lines 36-123, and the entry point, lines 125-130 *)

RAW_TABLE == "fct_claim"
CLEAN_TABLE == "cleaned_claims"
FEATURE_TABLE == "fct_claim_features_after_datacleanup"

\* steps that can raise: remote I/O, materialisation in memory, date
\* arithmetic, comparison of the amounts, hashing of the rows
CanRaise == {"get_spark", "read", "toPandas", "impute_pd_dt",
             "impute_clm_adjud_ts", "outliers", "drop_duplicates",
             "createDataFrame", "write_clean", "write_feature", "stop"}

Locals == <<spark_df, df, spark_clean, before_dup, Q1, Q3, lower, upper>>
Remote == <<env, spark, tables>>

NoLocals ==
    /\ spark_df = NoFrame /\ df = NoFrame /\ spark_clean = NoFrame
    /\ before_dup = 0
    /\ Q1 = NULL /\ Q3 = NULL /\ lower = NULL /\ upper = NULL

\* an exception leaves main(): its locals are gone, the entry point prints
\* the error and re-raises it
Unwind(e) ==
    /\ pc' = "aborted"
    /\ err' = e
    /\ spark_df' = NoFrame /\ df' = NoFrame /\ spark_clean' = NoFrame
    /\ before_dup' = 0
    /\ Q1' = NULL /\ Q3' = NULL /\ lower' = NULL /\ upper' = NULL

\* get_spark() line 22-23: a required variable is unset or empty
ConfigError ==
    /\ pc = "get_spark"
    /\ ~all_set(env)
    /\ Unwind("RuntimeError")
    /\ UNCHANGED Remote

\* get_spark() lines 25-32 and main() lines 42-43
GetSpark ==
    /\ pc = "get_spark"
    /\ all_set(env)
    /\ spark' = "live"
    /\ pc' = "read"
    /\ UNCHANGED <<env, tables, err>>
    /\ UNCHANGED Locals

\* any other exception: getOrCreate(), the remote engine, pandas
Raise ==
    /\ pc \in CanRaise
    /\ pc = "get_spark" => all_set(env)
    /\ Unwind("Exception")
    /\ UNCHANGED Remote

\* spark_df = spark.read.table(RAW_TABLE); row_count = spark_df.count()
Read ==
    /\ pc = "read"
    /\ spark_df' = tables[RAW_TABLE].data
    /\ pc' = "toPandas"
    /\ UNCHANGED <<df, spark_clean, before_dup, Q1, Q3, lower, upper, err>>
    /\ UNCHANGED Remote

\* df = spark_df.toPandas()
ToPandas ==
    /\ pc = "toPandas"
    /\ df' = toPandas(spark_df)
    /\ pc' = "dropna"
    /\ UNCHANGED <<spark_df, spark_clean, before_dup, Q1, Q3, lower, upper, err>>
    /\ UNCHANGED Remote

\* one cleaning rule that only rewrites df
Rule(at, next, f) ==
    /\ pc = at
    /\ df' = f
    /\ pc' = next
    /\ UNCHANGED <<spark_df, spark_clean, before_dup, Q1, Q3, lower, upper, err>>
    /\ UNCHANGED Remote

DropNa == Rule("dropna", "drop_sparse", dropna_all(df))

DropSparse == Rule("drop_sparse", "drop_authzn_id", drop_columns(df, cols_to_drop(df)))

DropAuthznId == Rule("drop_authzn_id", "to_datetime", drop_authzn_id(df))

ParseDates == Rule("to_datetime", "impute_pd_dt", parse_dates(df))

ImputePdDt == Rule("impute_pd_dt", "impute_clm_adjud_ts", impute_pd_dt(df))

ImputeClmAdjudTs == Rule("impute_clm_adjud_ts", "fill_categorical", impute_clm_adjud_ts(df))

FillCategorical == Rule("fill_categorical", "outliers", fill_categorical(df))

\* lines 89-97
Outliers ==
    /\ pc = "outliers"
    /\ IF "totl_billd_amt" \in df.cols
       THEN LET q1 == quantile(NumVals(df, "totl_billd_amt"), 1)
                q3 == quantile(NumVals(df, "totl_billd_amt"), 3)
            IN  /\ Q1' = q1
                /\ Q3' = q3
                /\ lower' = lower_bound(q1, q3)
                /\ upper' = upper_bound(q1, q3)
                /\ df' = remove_outliers(df, lower_bound(q1, q3), upper_bound(q1, q3))
       ELSE UNCHANGED <<df, Q1, Q3, lower, upper>>
    /\ pc' = "drop_duplicates"
    /\ UNCHANGED <<spark_df, spark_clean, before_dup, err>>
    /\ UNCHANGED Remote

\* lines 100-102
DropDuplicates ==
    /\ pc = "drop_duplicates"
    /\ before_dup' = Len(df.rows)
    /\ df' = drop_duplicates(df)
    /\ pc' = "createDataFrame"
    /\ UNCHANGED <<spark_df, spark_clean, Q1, Q3, lower, upper, err>>
    /\ UNCHANGED Remote

\* spark_clean = spark.createDataFrame(df)
CreateDataFrame ==
    /\ pc = "createDataFrame"
    /\ spark_clean' = createDataFrame(df)
    /\ pc' = "write_clean"
    /\ UNCHANGED <<spark_df, df, before_dup, Q1, Q3, lower, upper, err>>
    /\ UNCHANGED Remote

\* write.mode("overwrite").format("delta").saveAsTable(name): the table is
\* replaced as a whole by a new version, or (on an error) not at all
saveAsTable(t, name, data) ==
    [t EXCEPT ![name] = [version |-> @.version + 1, data |-> data]]

\* mutant: the feature table is written first
save_clean_mut(t, data) == saveAsTable(t, FEATURE_TABLE, data)

\* line 113
save_clean(t, data) == saveAsTable(t, CLEAN_TABLE, data)

\* line 119
save_feature(t, data) == saveAsTable(t, FEATURE_TABLE, data)

\* the tables this run has overwritten
written == {n \in DOMAIN tables : tables[n].version > 0}

WriteClean ==
    /\ pc = "write_clean"
    /\ tables' = save_clean(tables, spark_clean)
    /\ pc' = "write_feature"
    /\ UNCHANGED <<env, spark, err>>
    /\ UNCHANGED Locals

WriteFeature ==
    /\ pc = "write_feature"
    /\ tables' = save_feature(tables, spark_clean)
    /\ pc' = "stop"
    /\ UNCHANGED <<env, spark, err>>
    /\ UNCHANGED Locals

\* spark.stop()
Stop ==
    /\ pc = "stop"
    /\ spark' = "stopped"
    /\ pc' = "done"
    /\ UNCHANGED <<env, tables, err>>
    /\ UNCHANGED Locals

Next ==
    \/ ConfigError
    \/ GetSpark
    \/ Raise
    \/ Read
    \/ ToPandas
    \/ DropNa
    \/ DropSparse
    \/ DropAuthznId
    \/ ParseDates
    \/ ImputePdDt
    \/ ImputeClmAdjudTs
    \/ FillCategorical
    \/ Outliers
    \/ DropDuplicates
    \/ CreateDataFrame
    \/ WriteClean
    \/ WriteFeature
    \/ Stop

-----------------------------------------------------------------------------
(* Initial states: the environment and the source table of one run *)

AllSetEnv == [n \in EnvVars |-> "value"]
TokenUnsetEnv == [AllSetEnv EXCEPT !["DATABRICKS_TOKEN"] = None]

\* rows over cols with the cell of column c drawn from V[c]
RowsOver(cols, V) ==
    {r \in [cols -> UNION {V[c] : c \in cols}] : \A c \in cols : r[c] \in V[c]}

TablesOver(cols, V, max) ==
    {[cols |-> cols, rows |-> rs] :
        rs \in UNION {[1..n -> RowsOver(cols, V)] : n \in 0..max}}

\* a destination table as it is before the run
Stale == [version |-> 0, data |-> NoFrame]

InitWith(envs, sources) ==
    /\ env \in envs
    /\ \E t \in sources :
          tables = [n \in {RAW_TABLE, CLEAN_TABLE, FEATURE_TABLE} |->
                      IF n = RAW_TABLE THEN [version |-> 0, data |-> t] ELSE Stale]
    /\ pc = "get_spark"
    /\ spark = "none"
    /\ err = "none"
    /\ NoLocals

RunSources ==
    TablesOver({"clm_id"}, [c \in {"clm_id"} |-> {NULL, Str(1)}], MaxRunRows)

ColSources ==
    TablesOver({"authzn_id", "clm_id"},
               [c \in {"authzn_id", "clm_id"} |-> {NULL, Str(1)}], MaxColRows)
    \cup
    TablesOver({"clm_id", "procsr_apprv_pay_by_nm"},
               [c \in {"clm_id", "procsr_apprv_pay_by_nm"} |-> {NULL, Str(1)}],
               MaxColRows)

DateSources ==
    TablesOver(DateCols,
               [c \in DateCols |->
                  CASE c = "pd_dt" -> {NULL, Str(NotADate), Str(20)}
                    [] c = "clm_adjud_ts" -> {NULL, Str(15)}
                    [] OTHER -> {NULL, Str(NotADate), Str(10)}],
               MaxDateRows)

AmtSources ==
    TablesOver({"totl_billd_amt", "clm_id"},
               [c \in {"totl_billd_amt", "clm_id"} |->
                  IF c = "clm_id" THEN {Str(1)}
                  ELSE {NULL, Num(1), Num(2), Num(9)}],
               MaxAmtRows)

InitRun == InitWith([EnvVars -> EnvValues], RunSources)
InitCols == InitWith({AllSetEnv, TokenUnsetEnv}, ColSources)
InitDates == InitWith({AllSetEnv, TokenUnsetEnv}, DateSources)
InitAmt == InitWith({AllSetEnv, TokenUnsetEnv}, AmtSources)

SpecRun == InitRun /\ [][Next]_vars
SpecCols == InitCols /\ [][Next]_vars
SpecDates == InitDates /\ [][Next]_vars
SpecAmt == InitAmt /\ [][Next]_vars

-----------------------------------------------------------------------------
(* Vocabulary of the properties *)

\* the source table as loaded, with the index labels toPandas gives its rows
Loaded ==
    LET t == tables[RAW_TABLE].data
    IN  [cols |-> t.cols,
         rows |-> [i \in 1..Len(t.rows) |-> [idx |-> i - 1, c |-> t.rows[i]]]]

\* the input row a frame row comes from
InputOf(r) == tables[RAW_TABLE].data.rows[r.idx + 1]

\* df is the frame the cleaning pipeline produced
CleanedPcs == {"createDataFrame", "write_clean", "write_feature", "stop", "done"}
Cleaned == pc \in CleanedPcs

Ended == pc \in {"done", "aborted"}

\* x is a date: a timestamp, or text that reads as a date
ValidDate(x) == x.k = "ts" \/ (x.k = "str" /\ x.v >= 0)

-----------------------------------------------------------------------------
(* C1 *)

\* C1 as claimed: whatever step fails, a run ends with both destination
\* tables overwritten or with neither overwritten.
C1_AllOrNothing ==
    Ended => written \in {{}, {CLEAN_TABLE, FEATURE_TABLE}}

BeforeSecondWrite == {"get_spark", "read", "toPandas", "dropna", "drop_sparse",
                      "drop_authzn_id", "to_datetime", "impute_pd_dt",
                      "impute_clm_adjud_ts", "fill_categorical", "outliers",
                      "drop_duplicates", "createDataFrame", "write_clean"}

\* C1 as amended: a run that fails in any step up to and including the first
\* write ends with neither destination table overwritten; a run that fails
\* in the second write ends with cleaned_claims overwritten and the feature
\* table not; a run that reaches spark.stop() has overwritten both. The
\* source table is never written and a failure writes nothing itself.
C1_WritesByFailedStep ==
    [][/\ pc' = "aborted" =>
            /\ tables' = tables
            /\ pc \in BeforeSecondWrite => written = {}
            /\ pc = "write_feature" => written = {CLEAN_TABLE}
            /\ pc = "stop" => written = {CLEAN_TABLE, FEATURE_TABLE}
       /\ pc' = "done" => written' = {CLEAN_TABLE, FEATURE_TABLE}
       /\ written' \subseteq {CLEAN_TABLE, FEATURE_TABLE}]_vars

C1_Witness ==
    pc = "aborted" /\ err = "Exception" /\ written = {CLEAN_TABLE}

-----------------------------------------------------------------------------
(* C2 *)

\* C2 as claimed: once get_spark() has returned a live session, the run does
\* not end (normally or by an error) with that session still open.
C2_SessionClosedAtEnd ==
    Ended => spark # "live"

-----------------------------------------------------------------------------
(* C3 *)

MissingVar == \E n \in EnvVars : env[n] = None \/ env[n] = ""

\* C3: if one of the four required variables is unset or empty, the run can
\* only raise the configuration error: no session is built, the source table
\* is never read, no frame is made or cleaned and no table is written.
C3_ConfigErrorBeforeIO ==
    MissingVar =>
        /\ pc \in {"get_spark", "aborted"}
        /\ pc = "aborted" => err = "RuntimeError"
        /\ spark = "none"
        /\ NoLocals
        /\ written = {}

C3_Witness ==
    /\ pc = "aborted" /\ err = "RuntimeError"
    /\ \E n \in EnvVars : env[n] = "" /\ \A m \in EnvVars \ {n} : env[m] = "value"

-----------------------------------------------------------------------------
(* C4 *)

\* C4 as claimed: the cleaned frame has no row in which every remaining
\* column is missing.
C4_NoAllMissingRow ==
    (Cleaned /\ df.cols # {}) =>
        \A i \in 1..Len(df.rows) : \E c \in df.cols : ~isnull(df.rows[i].c[c])

-----------------------------------------------------------------------------
(* C5 *)

\* hundred times the missing count of column c over rows R of the loaded
\* frame, against MISSING_PCT times the number of those rows
Over40(R, c) ==
    100 * Cardinality({i \in R : isnull(Loaded.rows[i].c[c])})
        > 40 * Cardinality(R)

Exactly40(R, c) ==
    /\ R # {}
    /\ 100 * Cardinality({i \in R : isnull(Loaded.rows[i].c[c])})
        = 40 * Cardinality(R)

AllRows == 1..Len(Loaded.rows)
NonEmptyRows ==
    {i \in AllRows : \E c \in Loaded.cols : ~isnull(Loaded.rows[i].c[c])}

\* C5 as claimed: a column missing in more than 40% of all rows of the frame
\* as loaded is not in the cleaned frame; a column at exactly 40% is kept
\* (by this rule: authzn_id goes anyway).
C5_SparseOverLoadedRows ==
    Cleaned =>
        \A c \in Loaded.cols :
            /\ Over40(AllRows, c) => c \notin df.cols
            /\ (Exactly40(AllRows, c) /\ c # "authzn_id") => c \in df.cols

\* C5 as amended: the fraction is taken over the rows that remain after the
\* fully-empty rows are dropped: a column missing in more than 40% of those
\* rows is not in the cleaned frame, and any other column except authzn_id
\* (so one at exactly 40%) is in it.
C5_SparseOverNonEmptyRows ==
    Cleaned =>
        \A c \in Loaded.cols :
            /\ Over40(NonEmptyRows, c) => c \notin df.cols
            /\ (~Over40(NonEmptyRows, c) /\ c # "authzn_id") => c \in df.cols

C5_Witness ==
    /\ Cleaned
    /\ \E c \in Loaded.cols : Over40(NonEmptyRows, c) /\ c \notin df.cols
    /\ \E c \in Loaded.cols : Exactly40(NonEmptyRows, c) /\ c \in df.cols
    /\ NonEmptyRows # AllRows

-----------------------------------------------------------------------------
(* C6 *)

HasPdAndCret == {"pd_dt", "clm_sys_cret_dt"} \subseteq df.cols

\* C6 as claimed: an output row whose input pd_dt was missing and whose
\* input clm_sys_cret_dt was present has pd_dt two days after that
\* clm_sys_cret_dt; an input pd_dt that was a valid date is kept.
C6_PdDtImputedWhenPresent ==
    (Cleaned /\ HasPdAndCret) =>
        \A i \in 1..Len(df.rows) :
            LET r == df.rows[i].c
                in == InputOf(df.rows[i])
            IN  /\ (isnull(in["pd_dt"]) /\ ~isnull(in["clm_sys_cret_dt"])) =>
                       /\ ValidDate(in["clm_sys_cret_dt"])
                       /\ r["pd_dt"] = Ts(in["clm_sys_cret_dt"].v + 2)
                /\ ValidDate(in["pd_dt"]) => r["pd_dt"] = Ts(in["pd_dt"].v)

\* C6 as amended: the same for an input clm_sys_cret_dt that is a valid
\* date (a present value that is no date is coerced to missing, and pd_dt
\* then stays missing).
C6_PdDtImputedWhenValid ==
    (Cleaned /\ HasPdAndCret) =>
        \A i \in 1..Len(df.rows) :
            LET r == df.rows[i].c
                in == InputOf(df.rows[i])
            IN  /\ (isnull(in["pd_dt"]) /\ ValidDate(in["clm_sys_cret_dt"])) =>
                       r["pd_dt"] = Ts(in["clm_sys_cret_dt"].v + 2)
                /\ (isnull(in["pd_dt"]) /\ ~ValidDate(in["clm_sys_cret_dt"])) =>
                       isnull(r["pd_dt"])
                /\ ValidDate(in["pd_dt"]) => r["pd_dt"] = Ts(in["pd_dt"].v)

C6_Witness ==
    /\ Cleaned /\ HasPdAndCret
    /\ \E i \in 1..Len(df.rows) :
          /\ isnull(InputOf(df.rows[i])["pd_dt"])
          /\ ValidDate(InputOf(df.rows[i])["clm_sys_cret_dt"])
    /\ \E i \in 1..Len(df.rows) : ValidDate(InputOf(df.rows[i])["pd_dt"])

-----------------------------------------------------------------------------
(* C7 *)

AMT == "totl_billd_amt"

\* the non-missing amounts of frame f sorted ascending: the non-decreasing
\* sequence that holds each value as often as the column does
SortedAmounts(f) ==
    LET P == {i \in 1..Len(f.rows) : f.rows[i].c[AMT].k = "num"}
        V == {f.rows[i].c[AMT].v : i \in P}
    IN  CHOOSE s \in [1..Cardinality(P) -> V] :
            /\ \A i \in 1..(Cardinality(P) - 1) : s[i] <= s[i + 1]
            /\ \A v \in V : Cardinality({i \in 1..Cardinality(P) : s[i] = v})
                             = Cardinality({i \in P : f.rows[i].c[AMT].v = v})

\* four times the q4/4 quantile of the sorted amounts s, by linear
\* interpolation between the two order statistics around (n-1)*q4/4
LinearQuantile4(s, q4) ==
    LET h4 == (Len(s) - 1) * q4
        below == s[(h4 \div 4) + 1]
        above == s[((h4 + 3) \div 4) + 1]
    IN  4 * below + (h4 % 4) * (above - below)

\* v lies in [Q1 - 1.5*IQR, Q3 + 1.5*IQR] of frame f, bounds included
\* (both sides times eight)
WithinFence(v, f) ==
    LET s == SortedAmounts(f)
        q1 == LinearQuantile4(s, 1)
        q3 == LinearQuantile4(s, 3)
    IN  /\ Len(s) > 0
        /\ 8 * v >= 2 * q1 - 3 * (q3 - q1)
        /\ 8 * v <= 2 * q3 + 3 * (q3 - q1)

AfterOutliers == CleanedPcs \cup {"drop_duplicates"}

\* C7: when the frame has totl_billd_amt, the outlier step keeps exactly the
\* rows whose amount is present and within [Q1 - 1.5*IQR, Q3 + 1.5*IQR]
\* (bounds included) of the frame it was given, so every row it removes is
\* outside that range or has no amount; the locals Q1, Q3, lower, upper hold
\* those quantiles and bounds, and from then on every row of the frame has
\* an amount between lower and upper.
C7_OutlierFence ==
    [][/\ (pc = "outliers" /\ pc' = "drop_duplicates" /\ AMT \in df.cols) =>
            /\ \A i \in 1..Len(df.rows) :
                  LET x == df.rows[i].c[AMT]
                  IN  (\E k \in 1..Len(df'.rows) : df'.rows[k] = df.rows[i])
                        <=> (x.k = "num" /\ WithinFence(x.v, df))
            /\ \A k \in 1..Len(df'.rows) :
                  \E i \in 1..Len(df.rows) : df'.rows[k] = df.rows[i]
            /\ Len(SortedAmounts(df)) > 0 =>
                  /\ Q1' = Num(LinearQuantile4(SortedAmounts(df), 1))
                  /\ Q3' = Num(LinearQuantile4(SortedAmounts(df), 3))
                  /\ lower' = Num(2 * Q1'.v - 3 * (Q3'.v - Q1'.v))
                  /\ upper' = Num(2 * Q3'.v + 3 * (Q3'.v - Q1'.v))
       /\ (pc' \in AfterOutliers /\ AMT \in df'.cols) =>
            \A k \in 1..Len(df'.rows) :
                LET x == df'.rows[k].c[AMT]
                IN  /\ x.k = "num"
                    /\ lower'.k = "num" /\ upper'.k = "num"
                    /\ lower'.v <= 8 * x.v /\ 8 * x.v <= upper'.v
       /\ (pc \in AfterOutliers /\ pc' \in AfterOutliers) =>
            lower' = lower /\ upper' = upper]_vars

\* an outlier and a row without amount were removed, other rows were kept,
\* and the third quartile is an interpolated value
C7_Witness ==
    /\ pc = "drop_duplicates" /\ AMT \in df.cols
    /\ \E i \in 1..Len(Loaded.rows) :
          /\ Loaded.rows[i].c[AMT].k = "num"
          /\ 8 * Loaded.rows[i].c[AMT].v > upper.v
          /\ \A k \in 1..Len(df.rows) : df.rows[k].idx # i - 1
    /\ \E i \in 1..Len(Loaded.rows) :
          /\ isnull(Loaded.rows[i].c[AMT])
          /\ \A k \in 1..Len(df.rows) : df.rows[k].idx # i - 1
    /\ Len(df.rows) > 0
    /\ Q3.v % 4 # 0

-----------------------------------------------------------------------------
(* C8 *)

NoDuplicates(f) ==
    \A i, j \in 1..Len(f.rows) : i # j => f.rows[i].c # f.rows[j].c

-----------------------------------------------------------------------------
(* C9 *)

AfterAuthznDrop ==
    CleanedPcs \cup {"to_datetime", "impute_pd_dt", "impute_clm_adjud_ts",
                     "fill_categorical", "outliers", "drop_duplicates"}

\* C9: from the identifier drop on, the frame has no column authzn_id, and
\* neither has the converted frame nor a destination table this run wrote;
\* the drop step never raises, and on a frame without that column it
\* changes nothing.
C9_AuthznIdAbsent ==
    [][/\ pc' \in AfterAuthznDrop =>
            /\ "authzn_id" \notin df'.cols
            /\ "authzn_id" \notin spark_clean'.cols
            /\ \A n \in {CLEAN_TABLE, FEATURE_TABLE} :
                  tables'[n].version > 0 => "authzn_id" \notin tables'[n].data.cols
       /\ pc = "drop_authzn_id" =>
            /\ pc' = "to_datetime"
            /\ "authzn_id" \notin df.cols => df' = df
            /\ df'.rows = [i \in 1..Len(df.rows) |->
                  [idx |-> df.rows[i].idx,
                   c |-> [x \in df.cols \ {"authzn_id"} |-> df.rows[i].c[x]]]]]_vars

C9_Witness ==
    /\ pc = "done"
    /\ "authzn_id" \in Loaded.cols
    /\ \E i \in 1..Len(Loaded.rows) : ~isnull(Loaded.rows[i].c["authzn_id"])
    /\ written = {CLEAN_TABLE, FEATURE_TABLE}
    /\ Len(tables[CLEAN_TABLE].data.rows) > 0

-----------------------------------------------------------------------------
(* C10 *)

AfterAdjudImpute == CleanedPcs \cup {"fill_categorical", "outliers", "drop_duplicates"}

\* C10: once rule 6 has run on a frame with the three date columns, a row
\* that had neither a pd_dt nor a clm_adjud_ts date and had a valid
\* clm_sys_cret_dt has pd_dt two days after it and clm_adjud_ts two days
\* before that pd_dt, so equal to clm_sys_cret_dt; a row without
\* clm_adjud_ts date whose pd_dt is still missing after rule 5 keeps
\* clm_adjud_ts missing; a clm_adjud_ts that was a date is kept.
C10_AdjudFromImputedPdDt ==
    (pc \in AfterAdjudImpute /\ DateCols \subseteq df.cols) =>
        \A i \in 1..Len(df.rows) :
            LET r == df.rows[i].c
                in == InputOf(df.rows[i])
            IN  /\ (/\ ~ValidDate(in["pd_dt"])
                    /\ ~ValidDate(in["clm_adjud_ts"])
                    /\ ValidDate(in["clm_sys_cret_dt"])) =>
                       /\ r["pd_dt"] = Ts(in["clm_sys_cret_dt"].v + 2)
                       /\ r["clm_adjud_ts"] = Ts(r["pd_dt"].v - 2)
                       /\ r["clm_adjud_ts"] = Ts(in["clm_sys_cret_dt"].v)
                /\ (/\ ~ValidDate(in["pd_dt"])
                    /\ ~ValidDate(in["clm_adjud_ts"])
                    /\ ~ValidDate(in["clm_sys_cret_dt"])) =>
                       isnull(r["pd_dt"]) /\ isnull(r["clm_adjud_ts"])
                /\ ValidDate(in["clm_adjud_ts"]) =>
                       r["clm_adjud_ts"] = Ts(in["clm_adjud_ts"].v)

C10_Witness ==
    /\ pc = "fill_categorical" /\ DateCols \subseteq df.cols
    /\ \E i \in 1..Len(df.rows) :
          /\ isnull(InputOf(df.rows[i])["pd_dt"])
          /\ isnull(InputOf(df.rows[i])["clm_adjud_ts"])
          /\ ValidDate(InputOf(df.rows[i])["clm_sys_cret_dt"])
          /\ df.rows[i].c["clm_adjud_ts"].k = "ts"

====
